---------------------------- MODULE Spec2Model ----------------------------
(***************************************************************************)
(* Model of the Colombo prayer-times bot (src/main.py).                    *)
(*                                                                         *)
(* A background scheduler runs send_daily_prayers once a day (cron job)    *)
(* and once more for every authorized GET /test-prayers (date job).  A     *)
(* run downloads the month's PDF unless the cached file's modification     *)
(* month equals the target month, looks for the line of tomorrow's date,   *)
(* splits it on whitespace and sends one Telegram message.                 *)
(*                                                                         *)
(* Strings are sequences of one-character strings, so that strip, split,   *)
(* startswith and the strftime formats are computed, not assumed.          *)
(***************************************************************************)
EXTENDS Integers, Sequences, FiniteSets, Bags, TLC

(***************************************************************************)
(* Bounds of the model.                                                    *)
(***************************************************************************)
\* First calendar year of the modelled clock, and the number of years.
FirstYear == 2023
NumYears == 2
\* Number of job instances that can be in progress at the same time.
MaxRuns == 2

(***************************************************************************)
(* Calendar: datetime arithmetic and strftime.                             *)
(***************************************************************************)
Years == FirstYear .. (FirstYear + NumYears - 1)

IsLeap(y) == (y % 4 = 0 /\ y % 100 # 0) \/ y % 400 = 0

DaysInMonth(y, m) ==
    IF m = 2 THEN (IF IsLeap(y) THEN 29 ELSE 28)
    ELSE IF m \in {4, 6, 9, 11} THEN 30 ELSE 31

Date(y, m, d) == [y |-> y, m |-> m, d |-> d]

NoDate == Date(0, 0, 0)

\* Every valid date of the modelled years.
AllDates ==
    { dt \in { Date(y, m, d) : y \in Years, m \in 1..12, d \in 1..31 } :
        dt.d <= DaysInMonth(dt.y, dt.m) }

\* date + datetime.timedelta(days=1)
Tomorrow(dt) ==
    IF dt.d < DaysInMonth(dt.y, dt.m) THEN Date(dt.y, dt.m, dt.d + 1)
    ELSE IF dt.m < 12 THEN Date(dt.y, dt.m + 1, 1)
    ELSE Date(dt.y + 1, 1, 1)

Later(a, b) ==
    \/ a.y > b.y
    \/ a.y = b.y /\ a.m > b.m
    \/ a.y = b.y /\ a.m = b.m /\ a.d > b.d

\* Day of the week, 0 = Sunday (Gregorian calendar).
MonthOffsets == <<0, 3, 2, 5, 0, 3, 5, 1, 4, 6, 2, 4>>

DayOfWeek(dt) ==
    LET yy == IF dt.m < 3 THEN dt.y - 1 ELSE dt.y
    IN  (yy + (yy \div 4) - (yy \div 100) + (yy \div 400)
            + MonthOffsets[dt.m] + dt.d) % 7

DigitChars == <<"0", "1", "2", "3", "4", "5", "6", "7", "8", "9">>

Digit(n) == DigitChars[n + 1]

\* strftime('%d'): the day of the month, zero-padded to two digits.
TwoDigits(n) == <<Digit((n \div 10) % 10), Digit(n % 10)>>

\* strftime('%Y')
FourDigits(n) == TwoDigits(n \div 100) \o TwoDigits(n % 100)

\* strftime('%B')
MonthNames ==
    <<"January", "February", "March", "April", "May", "June", "July",
      "August", "September", "October", "November", "December">>

MonthName(dt) == MonthNames[dt.m]

\* strftime('%b')
MonthAbbrs ==
    << <<"J","a","n">>, <<"F","e","b">>, <<"M","a","r">>, <<"A","p","r">>,
       <<"M","a","y">>, <<"J","u","n">>, <<"J","u","l">>, <<"A","u","g">>,
       <<"S","e","p">>, <<"O","c","t">>, <<"N","o","v">>, <<"D","e","c">> >>

MonthAbbr(dt) == MonthAbbrs[dt.m]

\* strftime('%A') and the three-letter day names the document prints.
DayNames ==
    <<"Sunday", "Monday", "Tuesday", "Wednesday", "Thursday", "Friday",
      "Saturday">>

DayName(dt) == DayNames[DayOfWeek(dt) + 1]

DayAbbrs ==
    << <<"S","u","n">>, <<"M","o","n">>, <<"T","u","e">>, <<"W","e","d">>,
       <<"T","h","u">>, <<"F","r","i">>, <<"S","a","t">> >>

DayAbbr(dt) == DayAbbrs[DayOfWeek(dt) + 1]

(***************************************************************************)
(* Strings: str.strip, str.split, str.startswith.                          *)
(***************************************************************************)
Whitespace == {" ", "\t"}

IsSpace(c) == c \in Whitespace

RECURSIVE LStrip(_)
LStrip(s) == IF s = <<>> \/ ~IsSpace(Head(s)) THEN s ELSE LStrip(Tail(s))

RECURSIVE RStrip(_)
RStrip(s) ==
    IF s = <<>> \/ ~IsSpace(s[Len(s)]) THEN s
    ELSE RStrip(SubSeq(s, 1, Len(s) - 1))

\* line.strip()
Strip(s) == RStrip(LStrip(s))

\* s.startswith(p)
StartsWith(s, p) == Len(s) >= Len(p) /\ SubSeq(s, 1, Len(p)) = p

RECURSIVE SplitAcc(_, _, _)
SplitAcc(s, cur, acc) ==
    IF s = <<>> THEN (IF cur = <<>> THEN acc ELSE Append(acc, cur))
    ELSE IF IsSpace(Head(s))
         THEN SplitAcc(Tail(s), <<>>, IF cur = <<>> THEN acc ELSE Append(acc, cur))
         ELSE SplitAcc(Tail(s), Append(cur, Head(s)), acc)

\* raw_line.split(): the maximal runs of non-whitespace characters.
Split(s) == SplitAcc(s, <<>>, <<>>)

RECURSIVE Join(_)
Join(tokens) ==
    IF tokens = <<>> THEN <<>>
    ELSE IF Len(tokens) = 1 THEN tokens[1]
    ELSE tokens[1] \o <<" ">> \o Join(Tail(tokens))

(***************************************************************************)
(* The upstream document.  The program reads it through PyMuPDF as pages   *)
(* of text lines; what the lines look like is an input.  A layout names    *)
(* the shape of a month's table; the table has one entry per day.          *)
(***************************************************************************)
Layouts ==
    {"weekday", "timesonly", "trailing", "unpadded", "indented", "split",
     "splitnote", "absent"}

\* One layout for each way a run can end after the extraction: a line that
\* maps, a line with too few tokens, no line.
DailyLayouts == {"weekday", "split", "absent"}

\* Hours of the six times of a day; the minutes are the day number, so each
\* token of the table is recognisable.
FieldHours == <<4, 6, 12, 15, 18, 19>>

TimeToken(k, dt) == TwoDigits(FieldHours[k]) \o <<":">> \o TwoDigits(dt.d)

TimeTokens(dt) == [k \in 1..6 |-> TimeToken(k, dt)]

PaddedDay(dt) == TwoDigits(dt.d) \o <<"-">> \o MonthAbbr(dt)

UnpaddedDay(dt) ==
    (IF dt.d < 10 THEN <<Digit(dt.d)>> ELSE TwoDigits(dt.d))
        \o <<"-">> \o MonthAbbr(dt)

HeaderLine == Join(<< <<"D","a","t","e">>, <<"D","a","y">>, <<"F","a","j","r">> >>)

NoteLine == <<"*", " ">> \o <<"A","C","J","U">>

\* The text lines the document holds for one day.
DayLines(dt, layout) ==
    CASE layout = "weekday" ->
           << Join(<<PaddedDay(dt), DayAbbr(dt)>> \o TimeTokens(dt)) >>
      [] layout = "timesonly" ->
           << Join(<<PaddedDay(dt)>> \o TimeTokens(dt)) >>
      [] layout = "trailing" ->
           << Join(<<PaddedDay(dt)>> \o TimeTokens(dt) \o << <<"*">> >>) >>
      [] layout = "unpadded" ->
           << Join(<<UnpaddedDay(dt), DayAbbr(dt)>> \o TimeTokens(dt)) >>
      [] layout = "indented" ->
           << <<" ", "\t">>
                \o Join(<<PaddedDay(dt), DayAbbr(dt)>> \o TimeTokens(dt))
                \o <<" ">> >>
      [] layout = "split" ->
           << Join(<<PaddedDay(dt), DayAbbr(dt)>>), <<>>,
              Join(TimeTokens(dt)) >>
      [] layout = "splitnote" ->
           << Join(<<PaddedDay(dt), DayAbbr(dt)>>), NoteLine,
              Join(TimeTokens(dt)) >>
      [] OTHER -> <<>>

RECURSIVE MonthLines(_, _, _, _)
MonthLines(y, m, d, layout) ==
    IF d > DaysInMonth(y, m) THEN <<>>
    ELSE DayLines(Date(y, m, d), layout) \o MonthLines(y, m, d + 1, layout)

\* The pages of the document of month m of year y: page.get_text("text")
\* split at the line breaks.
BuildPages(y, m, layout) == << <<HeaderLine>> \o MonthLines(y, m, 1, layout) >>

\* The document the upstream repository serves for month m of year y.
DocPages(y, m, layout) == BuildPages(y, m, layout)

(***************************************************************************)
(* Line extractor and field mapper.                                        *)
(***************************************************************************)
\* Python's None, where a line is expected.
None == <<"None">>

\* `not raw_line`: None and the empty string are false.
Falsy(x) == x = None \/ x = <<>>

\* A variant that formats the day without the leading zero ('%-d-%b').
tomorrow_str_unpadded(dt) == UnpaddedDay(dt)

\* tomorrow_date.strftime('%d-%b')
tomorrow_str(dt) == TwoDigits(dt.d) \o <<"-">> \o MonthAbbr(dt)

\* The index of the first non-empty line from line j on, or 0.
RECURSIVE NextNonEmpty(_, _)
NextNonEmpty(lines, j) ==
    IF j > Len(lines) THEN 0
    ELSE IF Strip(lines[j]) # <<>> THEN j
    ELSE NextNonEmpty(lines, j + 1)

\* A variant with a two-line fallback: a matching line of five or fewer
\* tokens is joined with the next non-empty line when that line starts with
\* a digit, and is no match otherwise.
RECURSIVE ScanLinesFallback(_, _, _)
ScanLinesFallback(lines, i, prefix) ==
    IF i > Len(lines) THEN None
    ELSE IF StartsWith(Strip(lines[i]), prefix)
    THEN IF Len(Split(lines[i])) > 5 THEN lines[i]
         ELSE LET j == NextNonEmpty(lines, i + 1)
              IN  IF j # 0 /\ (\E n \in 1..10 : DigitChars[n] = Head(Strip(lines[j])))
                  THEN lines[i] \o <<" ">> \o lines[j]
                  ELSE None
    ELSE ScanLinesFallback(lines, i + 1, prefix)

\* The loop over the lines of one page, from line i on: the first line
\* whose stripped text starts with the prefix is returned as it is.
RECURSIVE ScanLines(_, _, _)
ScanLines(lines, i, prefix) ==
    IF i > Len(lines) THEN None
    ELSE IF StartsWith(Strip(lines[i]), prefix) THEN lines[i]
    ELSE ScanLines(lines, i + 1, prefix)

RECURSIVE ScanPages(_, _, _)
ScanPages(pages, p, prefix) ==
    IF p > Len(pages) THEN None
    ELSE LET found == ScanLines(pages[p], 1, prefix)
         IN  IF found # None THEN found ELSE ScanPages(pages, p + 1, prefix)

\* extract_tomorrows_prayers on a document that opened.
extract_tomorrows_prayers(pages, dt) == ScanPages(pages, 1, tomorrow_str(dt))

\* The least number of tokens of a line the job accepts.
MinParts == 8

\* seq[i] of Python: the index of the first element is 0.
Item(seq, i) == seq[i + 1]

\* A variant that takes the six tokens right after the date token.
FieldTokensFromOne(parts) ==
    <<Item(parts, 1), Item(parts, 2), Item(parts, 3), Item(parts, 4),
      Item(parts, 5), Item(parts, 6)>>

\* fajr_time .. isha_time = parts[2] .. parts[7]
FieldTokens(parts) ==
    <<Item(parts, 2), Item(parts, 3), Item(parts, 4), Item(parts, 5),
      Item(parts, 6), Item(parts, 7)>>

Labels == <<"Fajr", "Sunrise", "Luhar", "Asar", "Maghrib", "Isha">>

\* tomorrow.strftime("%A, %d %B %Y")
date_str(dt) == <<DayName(dt), TwoDigits(dt.d), MonthName(dt), FourDigits(dt.y)>>

(***************************************************************************)
(* Messages handed to bot.send_message.                                    *)
(***************************************************************************)
NoMsg == [kind |-> "none", date |-> <<>>, body |-> <<>>]

\* The formatted message: the date and one row per label, in this order.
PrayerMsg(dt, parts) ==
    LET times == FieldTokens(parts)
    IN  [kind |-> "prayers", date |-> date_str(dt),
         body |-> [k \in 1..6 |-> <<Labels[k], times[k]>>]]

DownloadAlert == [kind |-> "download_alert", date |-> <<>>, body |-> <<>>]

NotFoundAlert(dt) ==
    [kind |-> "notfound_alert", date |-> <<>>, body |-> <<tomorrow_str(dt)>>]

FormatAlert(line) ==
    [kind |-> "format_alert", date |-> <<>>, body |-> <<line>>]

\* e is the exception, as its name.
BotErrorAlert(e) == [kind |-> "bot_error", date |-> <<>>, body |-> <<e>>]

AlertKinds == {"download_alert", "notfound_alert", "format_alert", "bot_error"}

(***************************************************************************)
(* State.                                                                  *)
(***************************************************************************)
VARIABLES
    now,        \* the wall-clock date (Asia/Colombo)
    cronFired,  \* whether today's firing time of the cron job has been handled
    layout,     \* the layout of the documents the upstream repository serves
    telegram,   \* the Telegram API: "up", or "flaky" (a call may fail)
    file,       \* prayer_times.pdf in the working directory
    runs,       \* the bag of the job instances in progress
    lastCall    \* the latest call of download_pdf_if_needed

vars == <<now, cronFired, layout, telegram, file, runs, lastCall>>

NoDoc == <<0, 0>>

\* The document of a month: Prayer-Times-{month}-{year}-COLOMBO.pdf
DocOf(dt) == <<dt.y, dt.m>>

NoFile == [exists |-> FALSE, mtime |-> NoDate, doc |-> NoDoc, complete |-> FALSE]

\* The file as open(..., 'wb') leaves it, and as the write leaves it.
Truncated(dt) == [exists |-> TRUE, mtime |-> dt, doc |-> NoDoc, complete |-> FALSE]

Written(dt, doc) == [exists |-> TRUE, mtime |-> dt, doc |-> doc, complete |-> TRUE]

NoCall == [target |-> NoDoc, retrieved |-> FALSE]

\* An instance of a job as a worker thread starts it: its position, its
\* local variables, and what it has logged, tried to send and sent so far.
StartRun(job) ==
    [job |-> job, pc |-> "start", tomorrow |-> NoDate, raw_line |-> None,
     log |-> <<>>, tried |-> <<>>, sent |-> <<>>]

Running == BagToSet(runs)

Busy == Running # {}

\* The instances of a job (a trigger type) in progress.
InProgress(rs, job) ==
    BagCardinality([r \in { x \in BagToSet(rs) : x.job = job } |-> rs[r]])

Started(rs, r) == rs (+) SetToBag({r})

Replaced(rs, r, r2) == (rs (-) SetToBag({r})) (+) SetToBag({r2})

Ended(rs, r) == rs (-) SetToBag({r})

\* Dates the clock of the scheduling model visits: the last day of a month
\* and the day after it, in every year.
ClockDates ==
    { dt \in AllDates : (dt.m = 9 /\ dt.d = DaysInMonth(dt.y, dt.m))
                          \/ (dt.m = 10 /\ dt.d = 1) }

(***************************************************************************)
(* Scheduler and web server.                                               *)
(***************************************************************************)
\* A variant without the limit on the instances of the cron job.
CronAlwaysRuns(rs) == TRUE

\* The cron job is added with the default max_instances = 1: a firing is
\* skipped while an instance of the job is still running.
CronMayRun(rs) == InProgress(rs, "cron") = 0

\* The cron trigger reaches its daily firing time.
TimerFire ==
    /\ ~cronFired
    /\ CronMayRun(runs) => BagCardinality(runs) < MaxRuns
    /\ cronFired' = TRUE
    /\ runs' = IF CronMayRun(runs) THEN Started(runs, StartRun("cron")) ELSE runs
    /\ UNCHANGED <<now, layout, telegram, file, lastCall>>

TEST_TRIGGER_KEY == "default-secret-key"

Keys == {TEST_TRIGGER_KEY, "wrong-key", "no-key"}

\* GET /test-prayers?key=...: every authorized request adds a new date job,
\* which a worker thread starts at once.
test_prayers(provided_key) ==
    /\ provided_key = TEST_TRIGGER_KEY => BagCardinality(runs) < MaxRuns
    /\ runs' = IF provided_key # TEST_TRIGGER_KEY THEN runs
               ELSE Started(runs, StartRun("date"))
    /\ UNCHANGED <<now, cronFired, layout, telegram, file, lastCall>>

\* Time passes: to the next day at any moment, and by more than a day between
\* runs.
AdvanceClock ==
    /\ \E dt \in ClockDates :
          /\ IF Busy THEN dt = Tomorrow(now) ELSE Later(dt, now)
          /\ now' = dt
    /\ cronFired' = FALSE
    /\ UNCHANGED <<layout, telegram, file, runs, lastCall>>

(***************************************************************************)
(* send_daily_prayers.  An instance takes a step of its own wherever it    *)
(* reads or writes the file; what it does in between is part of the step.  *)
(***************************************************************************)
Logged(r, event) == [r EXCEPT !.log = Append(@, event)]

\* A variant without the inner try: the error of the notification leaves
\* the job function.
NotifyFailedRaises(r) == Logged([r EXCEPT !.pc = "raised"], "notify_failed")

\* The error notification could not be sent: the inner except logs it.
NotifyFailed(r) == Logged([r EXCEPT !.pc = "done"], "notify_failed")

\* except Exception as e: log it and try to send the error notification.
Handler(r, e, notifyOk) ==
    LET alert == BotErrorAlert(e)
        tried == Logged([r EXCEPT !.tried = Append(@, alert.kind)], "exception")
    IN  IF notifyOk
        THEN [tried EXCEPT !.pc = "done", !.sent = Append(@, alert)]
        ELSE NotifyFailed(tried)

\* A bot.send_message of the try block, after which the job returns: an
\* error of the call is an exception like any other.
Send(r, msg, sendOk, notifyOk) ==
    LET tried == [r EXCEPT !.tried = Append(@, msg.kind)]
    IN  IF sendOk
        THEN Logged([tried EXCEPT !.pc = "done", !.sent = Append(@, msg)], "sent")
        ELSE Handler(tried, <<"TelegramError">>, notifyOk)

\* What a bot.send_message can do: return (TRUE) or raise (FALSE).
SendOutcomes == IF telegram = "up" THEN {TRUE} ELSE BOOLEAN

\* The file exists and the month of its modification time is the target month.
CacheHit(f, target) == f.exists /\ MonthName(f.mtime) = MonthName(target)

\* tomorrow = now(Asia/Colombo) + 1 day, and download_pdf_if_needed up to
\* the decision to download.
Begin(r) ==
    LET tomorrow == Tomorrow(now)
        hit == CacheHit(file, tomorrow)
        began == [r EXCEPT !.tomorrow = tomorrow]
    IN  /\ r.pc = "start"
        /\ runs' = Replaced(runs, r,
              IF hit
              THEN Logged([began EXCEPT !.pc = "extract"], "cache_hit")
              ELSE [began EXCEPT !.pc = "fetch"])
        /\ lastCall' = [target |-> DocOf(tomorrow), retrieved |-> ~hit]
        /\ UNCHANGED <<now, cronFired, layout, telegram, file>>

FetchOutcomes == {"ok", "RequestException", "OSError"}

\* requests.get, raise_for_status and open(LOCAL_PDF_FILENAME, 'wb').  A
\* RequestException makes download_pdf_if_needed return False, and the job
\* sends the download alert; an OSError of open reaches the handler of the
\* job; else the file is created or truncated.
Download(r) ==
    /\ r.pc = "fetch"
    /\ \E outcome \in FetchOutcomes, sendOk \in SendOutcomes, notifyOk \in SendOutcomes :
          CASE outcome = "ok" ->
                 /\ file' = Truncated(now)
                 /\ runs' = Replaced(runs, r, [r EXCEPT !.pc = "write"])
            [] outcome = "RequestException" ->
                 /\ file' = file
                 /\ runs' = Replaced(runs, r,
                       Send(Logged(r, "download_failed"), DownloadAlert,
                            sendOk, notifyOk))
            [] outcome = "OSError" ->
                 /\ file' = file
                 /\ runs' = Replaced(runs, r, Handler(r, <<"OSError">>, notifyOk))
    /\ UNCHANGED <<now, cronFired, layout, telegram, lastCall>>

\* f.write(response.content) and the close of the file;
\* download_pdf_if_needed returns True.
WriteContent(r) ==
    LET written == Written(now, DocOf(r.tomorrow))
    IN  /\ r.pc = "write"
        /\ file' = written
        /\ runs' = Replaced(runs, r,
              Logged([r EXCEPT !.pc = "extract"], "downloaded"))
        /\ UNCHANGED <<now, cronFired, layout, telegram, lastCall>>

\* A variant whose format-error branch lacks the return: after the alert
\* the job goes on to parts[7], which raises IndexError.
AfterExtractNoReturn(r, line, parts, sendOk, notifyOk) ==
    LET got == [r EXCEPT !.raw_line = line]
        alert == FormatAlert(line)
        tried == Logged([got EXCEPT !.tried = Append(@, alert.kind)], "format_error")
    IN  IF Falsy(line)
        THEN Send(Logged(got, "not_found"), NotFoundAlert(r.tomorrow),
                  sendOk, notifyOk)
        ELSE IF Len(parts) < MinParts
        THEN IF sendOk
             THEN Handler([tried EXCEPT !.sent = Append(@, alert)], <<"IndexError">>,
                          notifyOk)
             ELSE Handler(tried, <<"TelegramError">>, notifyOk)
        ELSE Send(Logged(got, "mapped"), PrayerMsg(r.tomorrow, parts),
                  sendOk, notifyOk)

\* What the job does with the line the extractor returned and its parts,
\* parts = raw_line.split().
AfterExtract(r, line, parts, sendOk, notifyOk) ==
    LET got == [r EXCEPT !.raw_line = line]
    IN  IF Falsy(line)
        THEN Send(Logged(got, "not_found"), NotFoundAlert(r.tomorrow),
                  sendOk, notifyOk)
        ELSE IF Len(parts) < MinParts
        THEN Send(Logged(got, "format_error"), FormatAlert(line), sendOk, notifyOk)
        ELSE Send(Logged(got, "mapped"), PrayerMsg(r.tomorrow, parts),
                  sendOk, notifyOk)

\* extract_tomorrows_prayers and the rest of the job.  A file that is no
\* complete PDF makes fitz.open raise: the extractor returns None when its
\* except clause matches the error, else the error reaches the handler of
\* the job.
ExtractAndSend(r) ==
    /\ r.pc = "extract"
    /\ \E pages \in { IF file.complete
                      THEN DocPages(file.doc[1], file.doc[2], layout)
                      ELSE <<>> } :
       \E line \in { IF file.complete
                     THEN extract_tomorrows_prayers(pages, r.tomorrow)
                     ELSE None } :
       \E parts \in { IF Falsy(line) THEN <<>> ELSE Split(line) } :
       \E caught \in BOOLEAN, sendOk \in SendOutcomes, notifyOk \in SendOutcomes :
          runs' = Replaced(runs, r,
             IF ~file.complete
             THEN IF caught
                  THEN AfterExtract(Logged(r, "open_failed"), None, <<>>,
                                    sendOk, notifyOk)
                  ELSE Handler(r, <<"FileDataError">>, notifyOk)
             ELSE AfterExtract(r, line, parts, sendOk, notifyOk))
    /\ UNCHANGED <<now, cronFired, layout, telegram, file, lastCall>>

\* The job function returns (or an exception leaves it): the instance is over.
Return(r) ==
    /\ r.pc \in {"done", "raised"}
    /\ runs' = Ended(runs, r)
    /\ UNCHANGED <<now, cronFired, layout, telegram, file, lastCall>>

(***************************************************************************)
(* Specifications.                                                         *)
(***************************************************************************)
\* The scheduler, the web server and the clock, with overlapping runs, on
\* documents of the layout the job expects and with the Telegram API up.
Init ==
    /\ now \in ClockDates
    /\ cronFired = FALSE
    /\ layout = "weekday"
    /\ telegram = "up"
    /\ file = NoFile
    /\ runs = EmptyBag
    /\ lastCall = NoCall

Next ==
    \/ TimerFire
    \/ \E key \in Keys : test_prayers(key)
    \/ AdvanceClock
    \/ \E r \in Running : Begin(r)
    \/ \E r \in Running : Download(r)
    \/ \E r \in Running : WriteContent(r)
    \/ \E r \in Running : ExtractAndSend(r)
    \/ \E r \in Running : Return(r)

Spec == Init /\ [][Next]_vars

\* One run of the job on any date of a year, against a document of any
\* layout, with a Telegram API that may fail and with the file as an earlier
\* run of that day may have left it: absent, written, or truncated.
RunDates == { dt \in AllDates : dt.y = FirstYear + 1 }

InitRun ==
    /\ now \in RunDates
    /\ cronFired = FALSE
    /\ layout \in Layouts
    /\ telegram = "flaky"
    /\ file \in {NoFile, Truncated(now), Written(now, DocOf(Tomorrow(now)))}
    /\ runs = EmptyBag
    /\ lastCall = NoCall

NextRun ==
    \/ TimerFire
    \/ \E r \in Running : Begin(r)
    \/ \E r \in Running : Download(r)
    \/ \E r \in Running : WriteContent(r)
    \/ \E r \in Running : ExtractAndSend(r)
    \/ \E r \in Running : Return(r)

RunSpec == InitRun /\ [][NextRun]_vars

\* The cron job alone, day after day, against a document of any layout and
\* with a Telegram API that may fail.  A worker thread that has a step to
\* take takes it (every blocking call has a timeout), and the scheduler
\* thread fires a trigger that is due.
InitDaily ==
    /\ now \in ClockDates
    /\ cronFired = FALSE
    /\ layout \in DailyLayouts
    /\ telegram = "flaky"
    /\ file = NoFile
    /\ runs = EmptyBag
    /\ lastCall = NoCall

RunStep ==
    \E r \in Running :
        Begin(r) \/ Download(r) \/ WriteContent(r) \/ ExtractAndSend(r) \/ Return(r)

NextDaily ==
    \/ TimerFire
    \/ AdvanceClock
    \/ RunStep

DailySpec ==
    InitDaily /\ [][NextDaily]_vars /\ WF_vars(RunStep) /\ WF_vars(TimerFire)

(***************************************************************************)
(* Properties.                                                             *)
(***************************************************************************)
Range(f) == { f[i] : i \in DOMAIN f }

\* The instances whose job function has run to its end.
DoneRuns == { r \in Running : r.pc = "done" }

\* Instance r takes the step (r is replaced in, or leaves, the bag).
Stepped(r) == CopiesIn(r, runs') < CopiesIn(r, runs)

SentOfKinds(r, kinds) == { i \in DOMAIN r.sent : r.sent[i].kind \in kinds }

PrayersDelivered(r) == SentOfKinds(r, {"prayers"}) # {}

AlertTries(r) == Cardinality({ i \in DOMAIN r.tried : r.tried[i] \in AlertKinds })

\* Download, extraction, the token-count check and the delivery succeeded.
FullSuccess(r) ==
    /\ {"cache_hit", "downloaded"} \cap Range(r.log) # {}
    /\ "mapped" \in Range(r.log)
    /\ "sent" \in Range(r.log)

\* C1: a run that ends without the formatted message delivered (download
\* failed, no line, too few tokens, an exception) has made exactly one
\* attempt to deliver an alert; a failed alert delivery is followed by no
\* second attempt.
C1_OneAlertAttempt ==
    \A r \in DoneRuns : ~PrayersDelivered(r) => AlertTries(r) = 1

\* C2: a run delivers at most one formatted message and at most one alert;
\* a run in which every stage succeeds delivers exactly the formatted
\* message, its rows labelled Fajr, Sunrise, Luhar, Asar, Maghrib, Isha in
\* this order, and no alert; every other run delivers no formatted message.
C2_ExactlyOneMessage ==
    \A r \in DoneRuns :
        /\ Cardinality(SentOfKinds(r, {"prayers"})) <= 1
        /\ Cardinality(SentOfKinds(r, AlertKinds)) <= 1
        /\ FullSuccess(r) =>
              /\ Len(r.sent) = 1
              /\ r.sent[1].kind = "prayers"
              /\ [k \in 1..6 |-> r.sent[1].body[k][1]] = Labels
        /\ ~FullSuccess(r) => ~PrayersDelivered(r)

C2_Witness == \E r \in DoneRuns : FullSuccess(r) /\ PrayersDelivered(r)

\* The rows of a delivered formatted message are the labels with the tokens
\* parts[first] .. parts[first + 5] of the matched line, and a matched line
\* of fewer than 8 tokens gives the format alert carrying the raw line and
\* no formatted message.
MapsFrom(r, first) ==
    LET parts == Split(r.raw_line)
    IN  IF Len(parts) < 8
        THEN /\ r.tried[1] = "format_alert"
             /\ ~PrayersDelivered(r)
             /\ \A i \in SentOfKinds(r, {"format_alert"}) :
                   r.sent[i].body = <<r.raw_line>>
        ELSE /\ r.tried[1] = "prayers"
             /\ \A i \in SentOfKinds(r, {"prayers"}) :
                   \A k \in 1..6 :
                      r.sent[i].body[k] = <<Labels[k], Item(parts, first + k - 1)>>

IsDigitChar(c) == \E n \in 1..10 : DigitChars[n] = c

DigitValue(c) == (CHOOSE n \in 1..10 : DigitChars[n] = c) - 1

\* p is the day of dt in two digits, a dash, and the month abbreviation.
ZeroPaddedPrefix(p, dt) ==
    /\ Len(p) = 6
    /\ IsDigitChar(p[1]) /\ IsDigitChar(p[2])
    /\ 10 * DigitValue(p[1]) + DigitValue(p[2]) = dt.d
    /\ p[3] = "-"
    /\ SubSeq(p, 4, 6) = MonthAbbrs[dt.m]

\* p is the day of dt without a leading zero, a dash, and the abbreviation.
UnpaddedPrefix(p, dt) ==
    IF dt.d >= 10 THEN ZeroPaddedPrefix(p, dt)
    ELSE /\ Len(p) = 5
         /\ IsDigitChar(p[1]) /\ DigitValue(p[1]) = dt.d
         /\ p[2] = "-"
         /\ SubSeq(p, 3, 5) = MonthAbbrs[dt.m]

\* The first n characters of the stripped line a run matched.
MatchedPrefix(r, n) == SubSeq(Strip(r.raw_line), 1, n)

\* C4, as amended: the date prefix the job searches for, and names in the
\* not-found alert, is the day of the month zero-padded to two digits, a
\* dash and the three-letter month abbreviation: "09-Mar" for 9 March,
\* "23-Sep" for 23 September.
C4_ZeroPaddedPrefix ==
    \A r \in DoneRuns :
        /\ \A i \in SentOfKinds(r, {"notfound_alert"}) :
              /\ ZeroPaddedPrefix(r.sent[i].body[1], r.tomorrow)
              /\ (r.tomorrow.m = 3 /\ r.tomorrow.d = 9)
                    => r.sent[i].body[1] = <<"0", "9", "-", "M", "a", "r">>
              /\ (r.tomorrow.m = 9 /\ r.tomorrow.d = 23)
                    => r.sent[i].body[1] = <<"2", "3", "-", "S", "e", "p">>
        /\ ~Falsy(r.raw_line) => ZeroPaddedPrefix(MatchedPrefix(r, 6), r.tomorrow)

C4_Witness ==
    \E r \in DoneRuns :
        /\ r.tomorrow.m = 3 /\ r.tomorrow.d = 9
        /\ \E i \in SentOfKinds(r, {"notfound_alert"}) :
              r.sent[i].body[1] = <<"0", "9", "-", "M", "a", "r">>

\* C4, as claimed: the prefix has the day without a leading zero ("9-Mar").
C4_Original ==
    \A r \in DoneRuns :
        /\ \A i \in SentOfKinds(r, {"notfound_alert"}) :
              UnpaddedPrefix(r.sent[i].body[1], r.tomorrow)
        /\ ~Falsy(r.raw_line) =>
              UnpaddedPrefix(MatchedPrefix(r, IF r.tomorrow.d < 10 THEN 5 ELSE 6),
                             r.tomorrow)

RECURSIVE Flatten(_)
Flatten(pages) == IF pages = <<>> THEN <<>> ELSE Head(pages) \o Flatten(Tail(pages))

\* The lines of the cached document, in reading order.
CachedLines == Flatten(DocPages(file.doc[1], file.doc[2], layout))

\* The run opened the document and searched it.
Extracted(r) ==
    /\ r \in DoneRuns
    /\ file.complete
    /\ "open_failed" \notin Range(r.log)
    /\ {"not_found", "format_error", "mapped"} \cap Range(r.log) # {}

C6_FetchIdempotent ==
    [][\A r \in Running :
          (/\ r.pc = "start" /\ Stepped(r)
           /\ BagCardinality(runs) = 1
           /\ lastCall.target = lastCall'.target
           /\ lastCall.retrieved)
          => ~lastCall'.retrieved]_vars

\* A call decides to download although the complete document of its target
\* month is the cached file and no other run is in progress.
C6_RefetchOfCachedMonth ==
    \E r \in Running :
        /\ r.pc = "fetch"
        /\ BagCardinality(runs) = 1
        /\ file.complete
        /\ file.doc = DocOf(r.tomorrow)

\* C7: no step of a run that reads the file (the existence check, the
\* extractor) finds it truncated or partly written by another run.
C7_AtomicReplace ==
    [][\A r \in Running :
          (r.pc \in {"start", "extract"} /\ Stepped(r))
          => ~(file.exists /\ ~file.complete)]_vars

\* C8: no run lets an exception leave the job function, every run ends,
\* and whenever the cron trigger is due and no run is in progress a run
\* starts.
C8_FaultIsolation ==
    /\ [](\A r \in Running : r.pc # "raised")
    /\ Busy ~> ~Busy
    /\ (~cronFired /\ ~Busy) ~> Busy

C8_Witness ==
    \E r \in DoneRuns : "notify_failed" \in Range(r.log)

\* C9, as amended: at most one timer-triggered run is in progress at any
\* time (manually triggered runs are not limited).
C9_OneTimerRun == InProgress(runs, "cron") <= 1

\* A firing of the cron trigger was skipped: the timer run of yesterday is
\* still in progress.
C9_Witness ==
    \E r \in Running : r.job = "cron" /\ r.tomorrow = now /\ cronFired

\* C9, as claimed: at most one run per trigger type is in progress.
C9_Original ==
    InProgress(runs, "cron") <= 1 /\ InProgress(runs, "date") <= 1

\* C10: whenever download_pdf_if_needed returns True the file holds the
\* document of the month and year of the target date: a cache hit on a
\* complete file serves that document, and a download writes it.
C10_CacheHoldsTargetMonth ==
    [][\A r \in Running :
          /\ (r.pc = "start" /\ Stepped(r) /\ file.complete
                /\ CacheHit(file, Tomorrow(now)))
             => file.doc = DocOf(Tomorrow(now))
          /\ (r.pc = "write" /\ Stepped(r))
             => file'.complete /\ file'.doc = DocOf(r.tomorrow)]_vars

=============================================================================
